---- MODULE Spec2Model ----
(***************************************************************************)
(* Model of ANPNewsApiFeedingService (anp_news_api.py): the incremental    *)
(* ingest of the ANP News API.  One run of _update fetches the source      *)
(* catalog, keeps the sources named in the source_titles configuration,    *)
(* lists the items of each source after the stored last_item_id, resolves  *)
(* every item of an allowed kind (detail, optional media link) and writes  *)
(* the per-source checkpoint into the update dictionary.                   *)
(*                                                                         *)
(* Strings that the code normalises (titles, source_titles) are sequences  *)
(* of one-character strings, so lower(), strip() and split(',') are        *)
(* computed.  Python's None is NoneVal for strings and 0 for item ids (the *)
(* code only ever tests these values for truthiness).                      *)
(*                                                                         *)
(* What surrounds the class is modelled as follows.  The API answers the   *)
(* item listing of a source with the items after toItem (all items without *)
(* toItem), newest first, and item ids grow with publication.  The caller  *)
(* passes a new update dictionary to every run and, when _update returns,  *)
(* applies it to the stored provider key by key; when _update raises, it   *)
(* applies nothing.  parser.parse returns for every article.               *)
(***************************************************************************)
EXTENDS Integers, Sequences, FiniteSets, TLC

VARIABLES
    upstream,       \* remote API: source id -> items, oldest first
    provider,       \* provider['private']['sources']: the stored checkpoints
    update,         \* update['private']['sources']: checkpoints written by the run
    pc,             \* position of the run inside _update
    sources,        \* _update: sources (result of _fetch_sources)
    si,             \* index of the source of the outer for loop
    listing,        \* items['items'] as received from the API in _fetch_items
    items,          \* source['items'] (result of _fetch_items)
    todo,           \* the list comprehension of line 91
    ii,             \* index of the item of the inner for loop
    item_details,   \* _update / _fetch_item_details: item_details
    parsed_items,   \* _update: parsed_items
    result,         \* what _update returned to its caller
    error,          \* the exception that left _update
    requests,       \* the GETs issued by the run, in order
    content,        \* get_url: content of the last response (response.json())
    resolved,       \* source id -> ids whose _fetch_item_details returned in this run
    quiet,          \* the last run returned, its update was persisted, nothing published since
    input,          \* argument of a single call of a helper (SpecPure)
    output          \* its return value (SpecPure)

vars == <<upstream, provider, update, pc, sources, si, listing, items, todo, ii,
          item_details, parsed_items, result, error, requests, content, resolved,
          quiet, input, output>>

runVars == <<upstream, provider, update, pc, sources, si, listing, items, todo, ii,
             item_details, parsed_items, result, error, requests, content, resolved,
             quiet>>

-----------------------------------------------------------------------------
(* Bounds                                                                  *)

MaxItems == 4
MaxConfigLen == 3
MaxCatalog == 2
MaxRenditions == 2
MaxListing == 3

-----------------------------------------------------------------------------
(* Python values                                                           *)

NoneVal == "None"

\* truthiness of a string-or-None value: None and '' are false
Truthy(x) == x # NoneVal /\ x # ""

\* truthiness of an item id: None (0) is false
TruthyId(x) == x # 0

RECURSIVE SeqsUpTo(_, _)
SeqsUpTo(S, n) ==
    IF n = 0 THEN {<<>>}
    ELSE LET shorter == SeqsUpTo(S, n - 1)
         IN  shorter \cup {Append(s, x) : s \in {t \in shorter : Len(t) = n - 1}, x \in S}

-----------------------------------------------------------------------------
(* Class attributes                                                        *)

ALLOWED_ITEM_KINDS == {"TEXTARTICLE"}
ALLOWED_MEDIA_KINDS == {"imgMid"}
ALLOWED_MEDIA_MIMETYPES == {"image/jpeg"}

-----------------------------------------------------------------------------
(* str.lower, str.strip, str.split                                         *)

LowerChar(c) ==
    CASE c = "A" -> "a"
      [] c = "B" -> "b"
      [] OTHER -> c

Lower(s) == [i \in 1..Len(s) |-> LowerChar(s[i])]

RECURSIVE LStrip(_)
LStrip(s) ==
    IF s # <<>> /\ Head(s) = " " THEN LStrip(Tail(s)) ELSE s

RECURSIVE RStrip(_)
RStrip(s) ==
    IF s # <<>> /\ s[Len(s)] = " " THEN RStrip(SubSeq(s, 1, Len(s) - 1)) ELSE s

Strip(s) == RStrip(LStrip(s))

\* index of the first sep in s, 0 when there is none
RECURSIVE FindChar(_, _, _)
FindChar(s, sep, i) ==
    IF i > Len(s) THEN 0
    ELSE IF s[i] = sep THEN i
    ELSE FindChar(s, sep, i + 1)

\* s.split(sep): always at least one field, '' included
RECURSIVE Split(_, _)
Split(s, sep) ==
    LET k == FindChar(s, sep, 1)
    IN  IF k = 0 THEN <<s>>
        ELSE <<SubSeq(s, 1, k - 1)>> \o Split(SubSeq(s, k + 1, Len(s)), sep)

InList(x, l) == \E i \in 1..Len(l) : l[i] = x

-----------------------------------------------------------------------------
(* _fetch_sources: the list comprehension of lines 116-122                 *)

\* [title_conf.lower().strip() for title_conf in config['source_titles'].split(',')]
ConfTitles(source_titles) ==
    LET fields == Split(source_titles, ",")
    IN  [i \in 1..Len(fields) |-> Strip(Lower(fields[i]))]

\* [title.lower().strip() for title in ...]
AllowedTitles(source_titles) ==
    LET conf == ConfTitles(source_titles)
    IN  [i \in 1..Len(conf) |-> Strip(Lower(conf[i]))]

\* src['title'].lower() in [...]
TitleMatches(src, source_titles) ==
    InList(Lower(src.title), AllowedTitles(source_titles))

RECURSIVE FilterSources(_, _)
FilterSources(catalog, source_titles) ==
    IF catalog = <<>> THEN <<>>
    ELSE LET rest == FilterSources(Tail(catalog), source_titles)
         IN  IF TitleMatches(Head(catalog), source_titles)
             THEN <<Head(catalog)>> \o rest
             ELSE rest

-----------------------------------------------------------------------------
(* _fetch_items: items['items'].reverse()                                  *)

ReverseNot(s) == s

\* list.reverse()
RECURSIVE Reverse(_)
Reverse(s) == IF s = <<>> THEN <<>> ELSE Append(Reverse(Tail(s)), Head(s))

AllowedItemsAll(source_items) == source_items

\* [i for i in source['items'] if i['kind'] in self.ALLOWED_ITEM_KINDS]
AllowedItems(source_items) ==
    SelectSeq(source_items, LAMBDA i : i.kind \in ALLOWED_ITEM_KINDS)

\* payload['params'] = {'toItem': to_item} only when to_item is true; 0 is no params
ItemsPayload(to_item) == IF TruthyId(to_item) THEN to_item ELSE 0

-----------------------------------------------------------------------------
(* _fetch_media_link                                                       *)

NoLink == [source_id |-> 0, item_id |-> 0, media_id |-> NoneVal]

\* HTTP_ITEM_MEDIA_DETAILS_URL.format(source_id=, item_id=, media_id=)
MediaDetailsUrl(source_id, item_id, media_id) ==
    [source_id |-> source_id, item_id |-> item_id, media_id |-> media_id]

RendAllowed(rend) ==
    rend.kind \in ALLOWED_MEDIA_KINDS /\ rend.mimeType \in ALLOWED_MEDIA_MIMETYPES

RECURSIVE ScanLast(_, _, _, _)
ScanLast(source_id, item_id, rends, i) ==
    IF i > Len(rends) THEN NoLink
    ELSE IF RendAllowed(rends[i]) /\ Truthy(rends[i].id)
         THEN MediaDetailsUrl(source_id, item_id, rends[i].id)
         ELSE ScanLast(source_id, item_id, rends, i + 1)

\* the for loop of lines 174-183: the first allowed rendition decides
RECURSIVE ScanRenditions(_, _, _, _)
ScanRenditions(source_id, item_id, rends, i) ==
    IF i > Len(rends) THEN NoLink
    ELSE IF RendAllowed(rends[i])
         THEN IF Truthy(rends[i].id)
              THEN MediaDetailsUrl(source_id, item_id, rends[i].id)
              ELSE NoLink
         ELSE ScanRenditions(source_id, item_id, rends, i + 1)

MediaLink(source_id, item_id, media_renditions) ==
    ScanRenditions(source_id, item_id, media_renditions, 1)

-----------------------------------------------------------------------------
(* get_url                                                                 *)

NoError == [type |-> NoneVal, url |-> NoneVal, errorCode |-> NoneVal, description |-> NoneVal]

\* what super().get_url raises (connection, timeout, status)
TransportError(url) ==
    [type |-> "IngestApiError", url |-> url, errorCode |-> NoneVal, description |-> NoneVal]

\* IngestApiError.apiGeneralError(Exception(msg), provider), msg formatted
\* from url, content['data']['errorCode'] and content['data']['description']
ApiGeneralError(url, data) ==
    [type |-> "IngestApiError.apiGeneralError", url |-> url,
     errorCode |-> data.errorCode, description |-> data.description]

GetUrlNoCode(url, response) ==
    IF response.raises
    THEN [raised |-> TRUE, exc |-> TransportError(url), data |-> <<>>]
    ELSE IF response.content.hasError
         THEN [raised |-> TRUE, exc |-> TransportError(url), data |-> <<>>]
         ELSE [raised |-> FALSE, exc |-> NoError, data |-> response.content.data]

GetUrl(url, response) ==
    IF response.raises
    THEN [raised |-> TRUE, exc |-> TransportError(url), data |-> <<>>]
    ELSE IF response.content.hasError
         THEN [raised |-> TRUE, exc |-> ApiGeneralError(url, response.content.data),
               data |-> <<>>]
         ELSE [raised |-> FALSE, exc |-> NoError, data |-> response.content.data]

-----------------------------------------------------------------------------
(* The remote API and the provider configuration of the run                *)

ItemKinds == {"TEXTARTICLE", "PHOTO"}
ErrorCodes == {"E1", "E2"}
Descriptions == {"boom"}

\* the catalog served by HTTP_SOURCES_URL
Catalog ==
    << [id |-> 1, title |-> <<"A", "b">>],
       [id |-> 2, title |-> <<"b", "b">>],
       [id |-> 3, title |-> <<"B">>] >>

SourceIds == {Catalog[i].id : i \in 1..Len(Catalog)}

\* config['source_titles'] = 'ab, b'
SourceTitles == <<"a", "b", ",", " ", "b">>

OkResponse(data) == [raises |-> FALSE, content |-> [hasError |-> FALSE, data |-> data]]

FailedResponses ==
    {[raises |-> TRUE,
      content |-> [hasError |-> FALSE,
                   data |-> [errorCode |-> NoneVal, description |-> NoneVal]]]}
    \cup {[raises |-> FALSE,
           content |-> [hasError |-> TRUE,
                        data |-> [errorCode |-> c, description |-> d]]]
          : c \in ErrorCodes, d \in Descriptions}

\* the items of a source after toItem (all of them without toItem), newest first
UpstreamListing(source_id, toItem) ==
    LET after == SelectSeq(upstream[source_id], LAMBDA it : toItem = 0 \/ it.id > toItem)
    IN  [i \in 1..Len(after) |-> after[Len(after) + 1 - i]]

\* rendition lists served for an item during a run
RunRenditions ==
    { <<>>,
      << [kind |-> "imgSmall", mimeType |-> "image/jpeg", id |-> "m1"],
         [kind |-> "imgMid", mimeType |-> "image/jpeg", id |-> "m2"] >>,
      << [kind |-> "imgMid", mimeType |-> "image/jpeg", id |-> NoneVal],
         [kind |-> "imgMid", mimeType |-> "image/jpeg", id |-> "m2"] >> }

SourcesUrl == [endpoint |-> "sources", source_id |-> 0, item_id |-> 0, toItem |-> 0]
ItemsUrl(source_id, toItem) ==
    [endpoint |-> "items", source_id |-> source_id, item_id |-> 0, toItem |-> toItem]
ItemDetailsUrl(source_id, item_id) ==
    [endpoint |-> "item", source_id |-> source_id, item_id |-> item_id, toItem |-> 0]
ItemMediaListUrl(source_id, item_id) ==
    [endpoint |-> "media", source_id |-> source_id, item_id |-> item_id, toItem |-> 0]

-----------------------------------------------------------------------------
(* State of a run                                                          *)

EmptyMap == [s \in {} |-> 0]

PutAlone(map, key, value) == [k \in {key} |-> value]

Put(map, key, value) ==
    [k \in DOMAIN map \cup {key} |-> IF k = key THEN value ELSE map[k]]

StoredLastItemIdShared(source_id) ==
    IF provider = EmptyMap THEN 0
    ELSE provider[CHOOSE s \in DOMAIN provider : TRUE].last_item_id

\* provider.get('private', {}).get('sources', {}).get(source_id, {}).get('last_item_id')
StoredLastItemId(source_id) ==
    IF source_id \in DOMAIN provider THEN provider[source_id].last_item_id ELSE 0

NoContent == [hasError |-> FALSE, data |-> <<>>]
NoDetails == [id |-> 0, hasMedia |-> FALSE, media_link |-> NoLink]
NotReturned == [returned |-> FALSE, value |-> <<>>]
NoInput == [fn |-> NoneVal, catalog |-> <<>>, source_titles |-> <<>>, listing |-> <<>>,
            source_id |-> 0, item_id |-> 0, renditions |-> <<>>]
NoOutput == [done |-> FALSE, value |-> <<>>]

RECURSIVE ItemsUpTo(_)
ItemsUpTo(i) == IF i = 0 THEN 0 ELSE Len(upstream[Catalog[i].id]) + ItemsUpTo(i - 1)

TotalItems == ItemsUpTo(Len(Catalog))

InitRun ==
    /\ upstream = [s \in SourceIds |-> <<>>]
    /\ provider = EmptyMap
    /\ update = EmptyMap
    /\ pc = "idle"
    /\ sources = <<>>
    /\ si = 0
    /\ listing = <<>>
    /\ items = <<>>
    /\ todo = <<>>
    /\ ii = 0
    /\ item_details = NoDetails
    /\ parsed_items = <<>>
    /\ result = NotReturned
    /\ error = NoError
    /\ requests = <<>>
    /\ content = NoContent
    /\ resolved = [s \in SourceIds |-> <<>>]
    /\ quiet = FALSE

Init ==
    /\ InitRun
    /\ input = NoInput
    /\ output = NoOutput

\* the locals of a run, as a call of _update finds them
FreshLocals ==
    /\ update' = EmptyMap
    /\ sources' = <<>>
    /\ si' = 0
    /\ listing' = <<>>
    /\ items' = <<>>
    /\ todo' = <<>>
    /\ ii' = 0
    /\ item_details' = NoDetails
    /\ parsed_items' = <<>>
    /\ result' = NotReturned
    /\ error' = NoError
    /\ requests' = <<>>
    /\ content' = NoContent
    /\ resolved' = [s \in SourceIds |-> <<>>]

-----------------------------------------------------------------------------
(* The caller and the remote API                                           *)

\* the API publishes one more item of a source
Publish ==
    /\ pc = "idle"
    /\ UNCHANGED <<input, output>>
    /\ TotalItems < MaxItems
    /\ \E s \in SourceIds, k \in ItemKinds :
          upstream' = [upstream EXCEPT
                         ![s] = Append(@, [id |-> Len(@) + 1, kind |-> k])]
    /\ quiet' = FALSE
    /\ UNCHANGED <<provider, update, pc, sources, si, listing, items, todo, ii,
                   item_details, parsed_items, result, error, requests, content,
                   resolved>>

\* the caller calls _update(provider, update) with the stored provider and a
\* new update dictionary
StartRun ==
    /\ pc = "idle"
    /\ UNCHANGED <<input, output>>
    /\ pc' = "fetch_sources"
    /\ FreshLocals
    /\ UNCHANGED <<upstream, provider, quiet>>

\* the update of a run applied to the provider ("any update that is required on
\* provider"), as dict.update does: a key of update replaces the provider's value
\* of that key ('private', with its 'sources'); an update without the key leaves
\* the provider's value
Applied(stored, upd) == IF DOMAIN upd = {} THEN stored ELSE upd

\* the caller applies the update of a run that returned
Persist ==
    /\ pc = "done"
    /\ UNCHANGED <<input, output>>
    /\ provider' = Applied(provider, update)
    /\ pc' = "idle"
    /\ quiet' = TRUE
    /\ UNCHANGED <<upstream, update, sources, si, listing, items, todo, ii,
                   item_details, parsed_items, result, error, requests, content,
                   resolved>>

\* the exception left _update: nothing was returned, the caller applies nothing
Discard ==
    /\ pc = "aborted"
    /\ UNCHANGED <<input, output>>
    /\ pc' = "idle"
    /\ UNCHANGED <<upstream, provider, update, sources, si, listing, items, todo, ii,
                   item_details, parsed_items, result, error, requests, content,
                   resolved, quiet>>

-----------------------------------------------------------------------------
(* _update                                                                 *)

RaiseSwallowed(exc) ==
    /\ pc' = pc
    /\ error' = exc
    /\ quiet' = FALSE

\* an exception of get_url propagates out of _update
Raise(exc) ==
    /\ pc' = "aborted"
    /\ error' = exc
    /\ quiet' = FALSE

\* the GET of url is issued and answered by response
Get(url, response) ==
    /\ requests' = Append(requests, url)
    /\ content' = IF response.raises THEN NoContent ELSE response.content

\* end of the inner for loop: next source, or return [parsed_items]
NextSource(parsed) ==
    IF si < Len(sources)
    THEN /\ pc' = "fetch_items"
         /\ si' = si + 1
         /\ result' = result
    ELSE /\ pc' = "done"
         /\ si' = si
         /\ result' = [returned |-> TRUE, value |-> <<parsed>>]

\* lines 81-82: sources = self._fetch_sources()
FetchSources ==
    /\ pc = "fetch_sources"
    /\ UNCHANGED <<input, output>>
    /\ LET Returned(response) ==
              LET got == GetUrl(SourcesUrl, response)
              IN  /\ IF got.raised
                     THEN /\ Raise(got.exc)
                          /\ UNCHANGED <<sources, si, result>>
                     ELSE /\ sources' = FilterSources(got.data, SourceTitles)
                          /\ IF sources' = <<>>
                             THEN /\ pc' = "done"
                                  /\ si' = si
                                  /\ result' = [returned |-> TRUE,
                                                value |-> <<parsed_items>>]
                             ELSE /\ pc' = "fetch_items"
                                  /\ si' = 1
                                  /\ result' = result
                          /\ UNCHANGED <<error, quiet>>
                  /\ Get(SourcesUrl, response)
       IN  \/ \E response \in FailedResponses : Returned(response)
           \/ Returned(OkResponse(Catalog))
    /\ UNCHANGED <<upstream, provider, update, listing, items, todo, ii,
                   item_details, parsed_items, resolved>>

\* lines 86-91: source['items'] = self._fetch_items(source_id, to_item) and the
\* list comprehension of the inner loop
FetchItems ==
    /\ pc = "fetch_items"
    /\ UNCHANGED <<input, output>>
    /\ LET source == sources[si]
           url == ItemsUrl(source.id, ItemsPayload(StoredLastItemId(source.id)))
           Returned(response) ==
              LET got == GetUrl(url, response)
              IN  /\ IF got.raised
                     THEN /\ Raise(got.exc)
                          /\ UNCHANGED <<listing, items, todo, ii, si, result>>
                     ELSE /\ listing' = got.data.items
                          /\ items' = Reverse(got.data.items)
                          /\ todo' = AllowedItems(items')
                          /\ IF todo' = <<>>
                             THEN /\ NextSource(parsed_items)
                                  /\ ii' = 0
                             ELSE /\ pc' = "fetch_item_details"
                                  /\ ii' = 1
                                  /\ UNCHANGED <<si, result>>
                          /\ UNCHANGED <<error, quiet>>
                  /\ Get(url, response)
       IN  \/ \E response \in FailedResponses : Returned(response)
           \/ Returned(OkResponse([items |-> UpstreamListing(url.source_id, url.toItem)]))
    /\ UNCHANGED <<upstream, provider, update, sources, item_details, parsed_items,
                   resolved>>

AdvanceToNewest(details) ==
    LET source == sources[si]
    IN  /\ update' = Put(update, source.id,
                         [title |-> source.title, last_item_id |-> listing[1].id])
        /\ resolved' = [resolved EXCEPT ![source.id] = Append(@, details.id)]
        /\ pc' = "parse"

\* lines 95-98: the checkpoint of the source is the id of the detail just fetched
Advance(details) ==
    LET source == sources[si]
    IN  /\ update' = Put(update, source.id,
                         [title |-> source.title, last_item_id |-> details.id])
        /\ resolved' = [resolved EXCEPT ![source.id] = Append(@, details.id)]
        /\ pc' = "parse"

HasMediaAlways(details) == TRUE

\* if item_details.get('hasMedia')
HasMedia(details) == details.hasMedia

\* line 93 and lines 151-160: the detail of the item; without hasMedia
\* _fetch_item_details returns and lines 95-98 follow
FetchItemDetails ==
    /\ pc = "fetch_item_details"
    /\ UNCHANGED <<input, output>>
    /\ LET source == sources[si]
           item == todo[ii]
           url == ItemDetailsUrl(source.id, item.id)
           Returned(response) ==
              LET got == GetUrl(url, response)
              IN  /\ IF got.raised
                     THEN /\ Raise(got.exc)
                          /\ UNCHANGED <<item_details, update, resolved>>
                     ELSE /\ item_details' = [id |-> got.data.id,
                                              hasMedia |-> got.data.hasMedia,
                                              media_link |-> NoLink]
                          /\ IF HasMedia(got.data)
                             THEN /\ pc' = "fetch_media_link"
                                  /\ UNCHANGED <<update, resolved>>
                             ELSE Advance(item_details')
                          /\ UNCHANGED <<error, quiet>>
                  /\ Get(url, response)
       IN  \/ \E response \in FailedResponses : Returned(response)
           \/ \E m \in BOOLEAN : Returned(OkResponse([id |-> item.id, hasMedia |-> m]))
    /\ UNCHANGED <<upstream, provider, sources, si, listing, items, todo, ii,
                   parsed_items, result>>

\* lines 156-160 and 162-183: the media link of an item with hasMedia, then
\* _fetch_item_details returns and lines 95-98 follow
FetchMediaLink ==
    /\ pc = "fetch_media_link"
    /\ UNCHANGED <<input, output>>
    /\ LET source == sources[si]
           item == todo[ii]
           url == ItemMediaListUrl(source.id, item.id)
           Returned(response) ==
              LET got == GetUrl(url, response)
              IN  /\ IF got.raised
                     THEN /\ Raise(got.exc)
                          /\ UNCHANGED <<item_details, update, resolved>>
                     ELSE /\ item_details' =
                                [item_details EXCEPT
                                   !.media_link = MediaLink(source.id, item.id, got.data)]
                          /\ Advance(item_details')
                          /\ UNCHANGED <<error, quiet>>
                  /\ Get(url, response)
       IN  \/ \E response \in FailedResponses : Returned(response)
           \/ \E r \in RunRenditions : Returned(OkResponse(r))
    /\ UNCHANGED <<upstream, provider, sources, si, listing, items, todo, ii,
                   parsed_items, result>>

\* parser.parse(article=item_details, provider=provider); source_id tags the
\* parsed item with the source of the loop
Parse(article, source_id) == [source_id |-> source_id, article |-> article]

\* lines 101-103: parsed_items.append(parser.parse(...)), then the next item
ParseItem ==
    /\ pc = "parse"
    /\ UNCHANGED <<input, output>>
    /\ parsed_items' = Append(parsed_items, Parse(item_details, sources[si].id))
    /\ IF ii < Len(todo)
       THEN /\ pc' = "fetch_item_details"
            /\ ii' = ii + 1
            /\ UNCHANGED <<si, result>>
       ELSE /\ NextSource(parsed_items')
            /\ ii' = ii
    /\ UNCHANGED <<upstream, provider, update, sources, listing, items, todo,
                   item_details, error, requests, content, resolved, quiet>>

Next ==
    \/ Publish
    \/ StartRun
    \/ FetchSources
    \/ FetchItems
    \/ FetchItemDetails
    \/ FetchMediaLink
    \/ ParseItem
    \/ Persist
    \/ Discard

Spec == Init /\ [][Next]_vars

\* a statement of _update: every one of them is a blocking call that returns or
\* raises (requests time out), after which the interpreter goes on
RunStep ==
    \/ FetchSources
    \/ FetchItems
    \/ FetchItemDetails
    \/ FetchMediaLink
    \/ ParseItem

\* every statement of _update changes one of these: its position, or the request
\* log, or the output
progress == <<pc, si, ii, requests, parsed_items>>

\* runs whose started _update is not suspended for ever
SpecFair == Init /\ [][Next]_vars /\ WF_progress(RunStep)

-----------------------------------------------------------------------------
(* Single calls of _fetch_sources, _fetch_items and _fetch_media_link on   *)
(* every response of the API within the bounds                             *)

\* titles of catalog sources: cases, surrounding blanks, empty, a longer title
Titles ==
    { <<>>, <<" ">>, <<"a">>, <<"A">>, <<" ", "a">>, <<"A", " ">>, <<"a", "a">>,
      <<"a", " ", "A">> }

ConfigChars == {"a", "A", " ", ","}

\* catalogs: the source at position i has id i
Catalogs ==
    {[i \in 1..Len(titles) |-> [id |-> i, title |-> titles[i]]]
     : titles \in SeqsUpTo(Titles, MaxCatalog)}

Configs == SeqsUpTo(ConfigChars, MaxConfigLen)

Listings == SeqsUpTo([id : 1..MaxListing, kind : ItemKinds], MaxListing)

Renditions ==
    [kind : {"imgMid", "imgSmall", NoneVal},
     mimeType : {"image/jpeg", "image/png"},
     id : {NoneVal, "", "m1", "m2"}]

RenditionLists == SeqsUpTo(Renditions, MaxRenditions)

InitPure ==
    /\ InitRun
    /\ output = NoOutput
    /\ \/ \E c \in Catalogs, t \in Configs :
             input = [NoInput EXCEPT !.fn = "_fetch_sources",
                                     !.catalog = c, !.source_titles = t]
       \/ \E l \in Listings :
             input = [NoInput EXCEPT !.fn = "_fetch_items", !.listing = l]
       \/ \E s \in {1, 2}, i \in {1, 2}, r \in RenditionLists :
             input = [NoInput EXCEPT !.fn = "_fetch_media_link", !.source_id = s,
                                     !.item_id = i, !.renditions = r]

\* _fetch_sources on a catalog returned by get_url
CallFetchSources ==
    /\ input.fn = "_fetch_sources"
    /\ ~output.done
    /\ output' = [done |-> TRUE,
                  value |-> FilterSources(input.catalog, input.source_titles)]
    /\ UNCHANGED <<input, runVars>>

\* _fetch_items on a listing returned by get_url
CallFetchItems ==
    /\ input.fn = "_fetch_items"
    /\ ~output.done
    /\ output' = [done |-> TRUE, value |-> Reverse(input.listing)]
    /\ UNCHANGED <<input, runVars>>

\* _fetch_media_link on a rendition list returned by get_url
CallFetchMediaLink ==
    /\ input.fn = "_fetch_media_link"
    /\ ~output.done
    /\ output' = [done |-> TRUE,
                  value |-> MediaLink(input.source_id, input.item_id, input.renditions)]
    /\ UNCHANGED <<input, runVars>>

NextPure ==
    \/ CallFetchSources
    \/ CallFetchItems
    \/ CallFetchMediaLink

SpecPure == InitPure /\ [][NextPure]_vars

-----------------------------------------------------------------------------
(* Properties of a run                                                     *)

\* the checkpoint of a source as the run leaves it: written in update, else stored
RunCheckpoint(s) ==
    IF s \in DOMAIN update THEN update[s].last_item_id ELSE StoredLastItemId(s)

LastOr(seq, default) == IF seq = <<>> THEN default ELSE seq[Len(seq)]

Ids(seq) == [i \in 1..Len(seq) |-> seq[i].id]

IsAllowedKind(it) == it.kind \in ALLOWED_ITEM_KINDS

\* the items of a source published after its stored checkpoint, oldest first
NewItems(s) == SelectSeq(upstream[s], LAMBDA it : it.id > StoredLastItemId(s))

\* position of the item id in seq, 0 when it is not there
PositionOf(seq, id) ==
    IF \E i \in 1..Len(seq) : seq[i].id = id
    THEN CHOOSE i \in 1..Len(seq) : seq[i].id = id
    ELSE 0

KindOf(s, id) == upstream[s][id].kind

\* C1: after a run the checkpoint of a source is the stored one or the id of the
\* last item of the source resolved in the run, and over the runs the stored
\* checkpoint of a source never moves back.
C1_Step ==
    /\ pc' = "done" =>
          \A s \in SourceIds :
             RunCheckpoint(s)' \in {StoredLastItemId(s)', LastOr(resolved'[s], 0)}
    /\ \A s \in SourceIds :
          StoredLastItemId(s) # 0 => StoredLastItemId(s)' >= StoredLastItemId(s)

C1_CheckpointNeverRegresses == [][C1_Step]_vars

\* C2: a run that follows a run whose update was persisted, with nothing published
\* in between, resolves no item and leaves the stored checkpoints as they are.
C2_SecondRunIsEmpty ==
    (pc = "done" /\ quiet) =>
        /\ result.value = << <<>> >>
        /\ Applied(provider, update) = provider

\* C3: when a fetch fails after items were resolved, these items are returned to the
\* caller with the checkpoints written so far: every checkpoint of the update names
\* an item that was handed over.
C3_ResolvedItemsReturnedOnFailure ==
    (pc = "aborted" /\ \E s \in SourceIds : resolved[s] # <<>>) =>
        /\ result.returned
        /\ \A s \in DOMAIN update :
              \E i \in 1..Len(result.value[1]) :
                 /\ result.value[1][i].source_id = s
                 /\ result.value[1][i].article.id = update[s].last_item_id

\* C4: at every point of a run (an aborted one included) the items of a source
\* resolved so far are the allowed-kind items of its oldest-first listing up to and
\* including the item its checkpoint names: no gap, nothing beyond.
C4_PrefixContiguity ==
    pc # "idle" =>
        \A s \in SourceIds :
           LET oldestFirst == NewItems(s)
               k == PositionOf(oldestFirst, RunCheckpoint(s))
           IN  resolved[s] = Ids(SelectSeq(SubSeq(oldestFirst, 1, k), IsAllowedKind))

\* the run was aborted inside a source after one of its items, before its last
C4_Witness ==
    /\ pc = "aborted"
    /\ \E s \in SourceIds :
          /\ Len(resolved[s]) = 1
          /\ Len(SelectSeq(NewItems(s), IsAllowedKind)) = 3
          /\ RunCheckpoint(s) = resolved[s][1]

\* C5: a response with hasError makes get_url raise the API error with the errorCode
\* and description of the response; the run stops there (no further request, no
\* checkpoint write) and every checkpoint is the last resolved item of its source,
\* or the stored one when none was resolved.
C5_Step ==
    /\ (requests' # requests /\ content'.hasError) =>
          /\ pc' = "aborted"
          /\ error'.type = "IngestApiError.apiGeneralError"
          /\ error'.errorCode = content'.data.errorCode
          /\ error'.description = content'.data.description
          /\ \A s \in SourceIds :
                RunCheckpoint(s)' = LastOr(resolved[s], StoredLastItemId(s))
    /\ pc = "aborted" => UNCHANGED <<requests, update, resolved, parsed_items>>

C5_ApiErrorAborts == [][C5_Step]_vars

\* the detail of the second item of a source answered with the error E1 / boom
C5_Witness ==
    /\ pc = "aborted"
    /\ content.hasError
    /\ error.errorCode = "E1"
    /\ error.description = "boom"
    /\ \E s \in SourceIds :
          /\ Len(resolved[s]) = 1
          /\ Len(todo) > 1
          /\ RunCheckpoint(s) = resolved[s][1]

\* C6: items of a kind that is not allowed are never requested in detail, never in
\* the output and never a checkpoint; the allowed items listed after them are
\* resolved, and a source whose loop ended has the last allowed item of its listing
\* as checkpoint.
C6_SkippedKindsLeaveNoTrace ==
    pc # "idle" =>
        /\ \A i \in 1..Len(requests) :
              requests[i].endpoint \in {"item", "media"} =>
                 KindOf(requests[i].source_id, requests[i].item_id) \in ALLOWED_ITEM_KINDS
        /\ \A i \in 1..Len(parsed_items) :
              KindOf(parsed_items[i].source_id, parsed_items[i].article.id)
                 \in ALLOWED_ITEM_KINDS
        /\ \A s \in DOMAIN update :
              KindOf(s, update[s].last_item_id) \in ALLOWED_ITEM_KINDS
        /\ \A j \in 1..Len(sources) :
              (j < si \/ pc = "done") =>
                 LET s == sources[j].id
                     allowed == Ids(SelectSeq(NewItems(s), IsAllowedKind))
                 IN  /\ resolved[s] = allowed
                     /\ RunCheckpoint(s) = LastOr(allowed, StoredLastItemId(s))

\* stored checkpoint 1, listing 4, 3, 2 with 3 of a kind that is not allowed: 2 and 4
\* are resolved and the checkpoint is 4
C6_Witness ==
    /\ pc = "done"
    /\ \E s \in SourceIds :
          /\ StoredLastItemId(s) = 1
          /\ Ids(listing) = <<4, 3, 2>>
          /\ sources[si].id = s
          /\ ~IsAllowedKind(upstream[s][3])
          /\ resolved[s] = <<2, 4>>
          /\ update[s].last_item_id = 4

-----------------------------------------------------------------------------
(* Properties of the single calls                                          *)

\* a string lower-cased and trimmed
Normalized(s) == Strip(Lower(s))

\* the allow-list entries of a configuration, lower-cased and trimmed
NormalizedEntries(source_titles) ==
    LET fields == Split(source_titles, ",")
    IN  {Normalized(fields[i]) : i \in 1..Len(fields)}

\* C7: _fetch_sources returns exactly the catalog sources whose title, lower-cased
\* and trimmed, equals an allow-list entry lower-cased and trimmed, in catalog order.
\* Stated for the configurations without an empty entry (an empty entry is C8's case).
C7_FilterNormalizesBothSides ==
    (/\ input.fn = "_fetch_sources"
     /\ output.done
     /\ <<>> \notin NormalizedEntries(input.source_titles)) =>
        output.value =
            SelectSeq(input.catalog,
                      LAMBDA src : Normalized(src.title)
                                     \in NormalizedEntries(input.source_titles))

\* C8: with an empty source_titles configuration _fetch_sources returns no source,
\* whatever the catalog holds (a source with an empty or blank title included).
C8_EmptyAllowListSelectsNothing ==
    (input.fn = "_fetch_sources" /\ output.done /\ input.source_titles = <<>>) =>
        output.value = <<>>

\* positions of the renditions of allowed kind and allowed mime type
MatchingRenditions(rends) ==
    {i \in 1..Len(rends) :
        /\ rends[i].kind \in ALLOWED_MEDIA_KINDS
        /\ rends[i].mimeType \in ALLOWED_MEDIA_MIMETYPES}

FirstOf(S) == CHOOSE i \in S : \A j \in S : i <= j

\* C9: _fetch_media_link decides on the first rendition of allowed kind and mime
\* type: the link of sourceId, itemId and its id, none when it has no id (whatever
\* follows it), none when no rendition matches.
C9_FirstMatchingRenditionDecides ==
    (input.fn = "_fetch_media_link" /\ output.done) =>
        LET rends == input.renditions
            matching == MatchingRenditions(rends)
        IN  IF matching = {}
            THEN output.value = NoLink
            ELSE LET first == rends[FirstOf(matching)]
                 IN  IF first.id \in {NoneVal, ""}
                     THEN output.value = NoLink
                     ELSE /\ output.value.source_id = input.source_id
                          /\ output.value.item_id = input.item_id
                          /\ output.value.media_id = first.id

\* the first matching rendition has no id, a later matching one has: no link
C9_Witness ==
    /\ input.fn = "_fetch_media_link"
    /\ output.done
    /\ Len(input.renditions) = 2
    /\ MatchingRenditions(input.renditions) = {1, 2}
    /\ input.renditions[1].id = NoneVal
    /\ input.renditions[2].id = "m2"
    /\ output.value = NoLink

\* C10: the sequence returned by _fetch_items is the listing of the API in reverse:
\* as long, and its i-th element is the listing's i-th element from the end.
C10_ItemsAreListingReversed ==
    (input.fn = "_fetch_items" /\ output.done) =>
        /\ Len(output.value) = Len(input.listing)
        /\ \A i \in 1..Len(input.listing) :
              output.value[i] = input.listing[Len(input.listing) + 1 - i]

\* a listing of three items, newest first, returned oldest first
C10_Witness ==
    /\ input.fn = "_fetch_items"
    /\ output.done
    /\ Len(input.listing) = 3
    /\ input.listing[1].id = 3 /\ input.listing[2].id = 2 /\ input.listing[3].id = 1
    /\ output.value[1].id = 1 /\ output.value[3].id = 3

-----------------------------------------------------------------------------
(* Further properties of a run                                             *)

\* C11: the update handed back by a run that returned keeps the checkpoint of every
\* source with a stored checkpoint and no item resolved in the run: applying the
\* update leaves the stored last_item_id of such a source as it was.
C11_ReturnedMapKeepsOtherSources ==
    pc = "done" =>
        \A s \in DOMAIN provider :
           resolved[s] = <<>> =>
              /\ s \in DOMAIN Applied(provider, update)
              /\ Applied(provider, update)[s].last_item_id = provider[s].last_item_id

\* the items of source s appended to the output of the run so far
OutputIds(s) ==
    {parsed_items[i].article.id :
        i \in {j \in DOMAIN parsed_items : parsed_items[j].source_id = s}}

\* C12: the checkpoint of a source is written only after the item has been appended to
\* the output: in every state the checkpoint the run has written for a source names an
\* item that is in the output.
C12_CheckpointNamesOutputItem ==
    \A s \in DOMAIN update : update[s].last_item_id \in OutputIds(s)

\* the sources of the filtered catalog up to the one being processed
SourcesSoFar == {sources[j].id : j \in 1..si}

\* C13: once a fetch has failed the run is aborted; at the abort no listing, detail or
\* media request has been issued and no checkpoint written for a source after the one
\* being processed, and an aborted run issues no request and writes no checkpoint.
C13_Step ==
    /\ error' # NoError => pc' \in {"aborted", "idle"}
    /\ pc' = "aborted" =>
          /\ \A i \in DOMAIN requests' :
                requests'[i].endpoint # "sources" =>
                   requests'[i].source_id \in SourcesSoFar'
          /\ DOMAIN update' \subseteq SourcesSoFar'
    /\ pc = "aborted" => requests' = requests /\ update' = update

C13_FailFastAcrossSources == [][C13_Step]_vars

\* the run fails in the first of two sources, after an item of it was resolved, while
\* the second source has an item to list
C13_Witness ==
    /\ pc = "aborted"
    /\ error # NoError
    /\ Len(sources) = 2
    /\ si = 1
    /\ resolved[sources[1].id] # <<>>
    /\ upstream[sources[2].id] # <<>>
    /\ \A i \in DOMAIN requests : requests[i].source_id # sources[2].id

\* the checkpoint stored for source s before the run, 0 when none is stored
StoredBound(s) == IF s \in DOMAIN provider THEN provider[s].last_item_id ELSE 0

\* C14: every item listing request of a run carries as toItem the checkpoint stored in
\* the provider for the source it lists, and no toItem exactly when none is stored; it
\* is neither the checkpoint of another source nor one written during the run.
C14_ListingBoundedByOwnCheckpoint ==
    pc \notin {"idle"} =>
       \A i \in DOMAIN requests :
          requests[i].endpoint = "items" =>
             requests[i].toItem = StoredBound(requests[i].source_id)

\* two sources with different stored checkpoints are listed, each with its own
C14_Witness ==
    /\ pc = "done"
    /\ \E i, j \in DOMAIN requests :
          /\ requests[i].endpoint = "items"
          /\ requests[j].endpoint = "items"
          /\ requests[i].source_id # requests[j].source_id
          /\ {requests[i].source_id, requests[j].source_id} \subseteq DOMAIN provider
          /\ requests[i].toItem = provider[requests[i].source_id].last_item_id
          /\ requests[j].toItem = provider[requests[j].source_id].last_item_id
          /\ requests[i].toItem # requests[j].toItem

\* the position of source s in the catalog listing
CatalogPosition(s) == CHOOSE i \in DOMAIN Catalog : Catalog[i].id = s

\* C15: in the output of a run that returned, the items of a source earlier in the
\* catalog precede those of a later one, the items of one source are in the reverse of
\* the order of their listing (newest first), and no item is there twice.
C15_OutputOrder ==
    (pc = "done" /\ result.returned) =>
       LET out == result.value[1]
       IN  \A i, j \in DOMAIN out :
              i < j =>
                 LET a == out[i]
                     b == out[j]
                     whole == UpstreamListing(a.source_id, 0)
                 IN  /\ CatalogPosition(a.source_id) <= CatalogPosition(b.source_id)
                     /\ a.source_id = b.source_id =>
                           PositionOf(whole, a.article.id) > PositionOf(whole, b.article.id)

\* two items of the first source, oldest first, then one of another source
C15_Witness ==
    /\ pc = "done"
    /\ result.returned
    /\ Len(result.value[1]) = 3
    /\ result.value[1][1].source_id = result.value[1][2].source_id
    /\ result.value[1][1].article.id < result.value[1][2].article.id
    /\ result.value[1][3].source_id # result.value[1][1].source_id

\* the media list of item id of source s has been requested in the run
MediaRequested(s, id) ==
    \E i \in DOMAIN requests :
       /\ requests[i].endpoint = "media"
       /\ requests[i].source_id = s
       /\ requests[i].item_id = id

\* C16: the media list of an item is requested exactly when its detail has hasMedia;
\* an item whose media list gives no link is no error: its checkpoint is written, it
\* is appended to the output without media_link and the loop goes on.
C16_Requested ==
    /\ \A i \in DOMAIN parsed_items :
          MediaRequested(parsed_items[i].source_id, parsed_items[i].article.id)
             <=> parsed_items[i].article.hasMedia
    /\ pc = "parse" =>
          (MediaRequested(sources[si].id, item_details.id) <=> item_details.hasMedia)

C16_Step ==
    /\ C16_Requested'
    /\ (pc = "fetch_media_link" /\ ~content'.hasError /\ error' = NoError
          /\ item_details'.media_link = NoLink) =>
          /\ pc' = "parse"
          /\ update'[sources[si].id].last_item_id = item_details'.id
    /\ (pc = "parse" /\ item_details.hasMedia /\ item_details.media_link = NoLink) =>
          /\ parsed_items' = Append(parsed_items, Parse(item_details, sources[si].id))
          /\ pc' \in {"fetch_item_details", "fetch_items", "done"}

C16_MediaOnlyWhenFlagged == [][C16_Step]_vars

\* an item with hasMedia and no link is in the output, followed by another item, and
\* the checkpoint has moved past it
C16_Witness ==
    /\ pc = "done"
    /\ \E i \in DOMAIN parsed_items :
          /\ parsed_items[i].article.hasMedia
          /\ parsed_items[i].article.media_link = NoLink
          /\ i < Len(parsed_items)
          /\ parsed_items[i + 1].source_id = parsed_items[i].source_id
          /\ ~parsed_items[i + 1].article.hasMedia
          /\ RunCheckpoint(parsed_items[i].source_id) = parsed_items[i + 1].article.id

\* the steps of _update itself
InRun == pc \in {"fetch_sources", "fetch_items", "fetch_item_details",
                 "fetch_media_link", "parse"}

\* C17: no step of a run changes the stored provider map; a checkpoint write changes
\* the update map only, there only the entry of the source being processed, and leaves
\* the entries of all other sources as they were.
C17_Step ==
    InRun =>
       /\ provider' = provider
       /\ update' # update =>
             /\ DOMAIN update' = DOMAIN update \cup {sources[si].id}
             /\ update'[sources[si].id].last_item_id = item_details'.id
             /\ \A s \in DOMAIN update \ {sources[si].id} : update'[s] = update[s]

C17_WritesOnlyOwnUpdateEntry == [][C17_Step]_vars

\* the first checkpoint of a second source has been written next to the one of the
\* first source, with a stored map that differs from the update
C17_Witness ==
    /\ pc = "parse"
    /\ provider # EmptyMap
    /\ Len(resolved[sources[si].id]) = 1
    /\ \E s \in DOMAIN update :
          /\ s # sources[si].id
          /\ update[s].last_item_id = LastOr(resolved[s], 0)
          /\ s \in DOMAIN provider
          /\ provider[s].last_item_id < update[s].last_item_id

\* the positions a run can go to from position p: listing, then per item detail,
\* media when flagged, checkpoint and append; done or aborted at the end
Successors(p) ==
    CASE p = "idle" -> {"idle", "fetch_sources"}
      [] p = "fetch_sources" -> {"fetch_items", "done", "aborted"}
      [] p = "fetch_items" -> {"fetch_items", "fetch_item_details", "done", "aborted"}
      [] p = "fetch_item_details" -> {"fetch_media_link", "parse", "aborted"}
      [] p = "fetch_media_link" -> {"parse", "aborted"}
      [] p = "parse" -> {"fetch_item_details", "fetch_items", "done"}
      [] p = "done" -> {"idle"}
      [] p = "aborted" -> {"idle"}

\* C18: a run goes through listing, then per item detail, media when flagged and
\* checkpoint; it is done only after the last source and aborted exactly on a failed
\* fetch; no request of a run is issued twice; and every started run ends, done or
\* aborted.
C18_Step ==
    /\ pc' \in Successors(pc)
    /\ (InRun /\ pc' = "done") => (si' = Len(sources') /\ result'.returned)
    /\ InRun => (pc' = "aborted" <=> error' # NoError)
    /\ (pc = "fetch_item_details" /\ pc' = "fetch_media_link") => item_details'.hasMedia
    /\ \A i, j \in DOMAIN requests' : requests'[i] = requests'[j] => i = j

C18_RunsEndWithoutRetry ==
    /\ [][C18_Step]_vars
    /\ InRun ~> pc \in {"done", "aborted"}

\* a run over two sources that issued all four kinds of request is done
C18_Witness ==
    /\ pc = "done"
    /\ \A e \in {"sources", "items", "item", "media"} :
          \E i \in DOMAIN requests : requests[i].endpoint = e
    /\ Cardinality({requests[i].source_id : i \in DOMAIN requests} \ {0}) = 2

====
